---- MODULE Spec2Model ----
(***************************************************************************)
(* Model of the Game record core of server/app.py and server/models.py:    *)
(* the game table, the create / update / delete request handlers with      *)
(* their row_version check, and the list / report queries.                 *)
(*                                                                         *)
(* Every request is served on its own thread with its own database        *)
(* session.  A handler touches the table only in its SELECT and in the     *)
(* flush at the end of its "with db.session.begin()" block, so a handler   *)
(* is a sequence of steps (load, check, commit, respond) and the steps of  *)
(* different requests interleave.                                          *)
(***************************************************************************)
EXTENDS Integers, Sequences, FiniteSets, TLC

\* ------------------------------------------------------------------ bounds
MaxGames    == 3   \* ids the table can hold
MaxRequests == 2   \* requests served in one behaviour, each on its own thread
MaxVersion  == 1   \* expected versions sent are 0..MaxVersion
MaxId       == 3   \* sport / team / venue ids are 0..MaxId
MaxScore    == 1   \* scores are 0..MaxScore
MaxRows     == 2   \* rows of the table in the query specification

\* ------------------------------------------------------------------ values
\* JSON null / Python None, and a key that is absent from the JSON body,
\* for the integer-valued keys and for the string-valued keys.
Null    == -1
Absent  == -2
NullS   == "null"
AbsentS == "absent"

GameIds == 1..MaxGames
Requests == 1..MaxRequests

IntKeys == {"sport_id", "home_team_id", "away_team_id", "venue_id",
            "home_score", "away_score"}
StrKeys == {"date", "time", "status"}
Keys    == IntKeys \cup StrKeys
Columns == Keys \cup {"created_at", "row_version"}
\* Keys a body may carry that no handler reads.
ExtraKeys == {"id", "created_at"}

\* Dates and times of day are ordinals; their wire format is a string.
DateStrs == <<"2025-01-01", "2025-01-02">>
TimeStrs == <<"18:30", "20:00">>
BadFormat == "soon"

Falsy(v) == v \in {Null, Absent, 0}
FalsyS(s) == s \in {NullS, AbsentS, ""}

Index(seq, s) == CHOOSE i \in 1..Len(seq) : seq[i] = s
InSeq(seq, s) == \E i \in 1..Len(seq) : seq[i] = s

\* parse_date / parse_time: None for a falsy argument, else strptime, which
\* raises ValueError on a string of another format.
parse_raises(seq, s) == ~FalsyS(s) /\ ~InSeq(seq, s)
parse(seq, s) == IF FalsyS(s) THEN Null ELSE Index(seq, s)
parse_date(s) == parse(DateStrs, s)
parse_time(s) == parse(TimeStrs, s)

\* ------------------------------------------------------------------ table
\* A row of the game table (models.py, class Game); the id is the key.
Row(sport, home, away, venue, d, t, hs, as, st, created, ver) ==
  [sport_id |-> sport, home_team_id |-> home, away_team_id |-> away,
   venue_id |-> venue, date |-> d, time |-> t, home_score |-> hs,
   away_score |-> as, status |-> st, created_at |-> created, row_version |-> ver]

NoRow == Row(Null, Null, Null, Null, Null, Null, Null, Null, NullS, Null, Null)

\* nullable=False columns and the two CheckConstraints of Game.__table_args__:
\* the INSERT or UPDATE of a row that breaks one raises IntegrityError.
NotNullOk(r) ==
  /\ r.sport_id # Null /\ r.home_team_id # Null /\ r.away_team_id # Null
  /\ r.date # Null /\ r.time # Null /\ r.status # NullS
  /\ r.created_at # Null /\ r.row_version # Null
ck_game_status(r) == r.status \in {"scheduled", "final"}
\* The table without its ck_game_distinct_teams constraint.
ck_game_distinct_teams_missing(r) == TRUE
ck_game_distinct_teams(r) == r.home_team_id # r.away_team_id
RowOk(r) == NotNullOk(r) /\ ck_game_status(r) /\ ck_game_distinct_teams(r)

Max(S) == CHOOSE m \in S : \A x \in S : x <= m
\* INTEGER PRIMARY KEY without AUTOINCREMENT: the largest id in use plus one.
NewId(tbl) == IF DOMAIN tbl = {} THEN 1 ELSE Max(DOMAIN tbl) + 1
Remove(tbl, id) == [i \in DOMAIN tbl \ {id} |-> tbl[i]]

\* ------------------------------------------------------------------ requests
\* dict.get(key): None for a key that is absent.
Get(data, k) == IF data[k] = Absent THEN Null ELSE data[k]

EmptyBody == [k \in Keys \cup ExtraKeys |->
               IF k \in StrKeys THEN AbsentS ELSE Absent]
BaseBody == [EmptyBody EXCEPT !.sport_id = 1, !.home_team_id = 1,
                              !.away_team_id = 2, !.date = DateStrs[1],
                              !.time = TimeStrs[1]]

IdVals     == {Null} \cup (0..MaxId)
ScoreVals  == {Null} \cup (0..MaxScore)
DateVals   == {NullS, "", BadFormat} \cup {DateStrs[i] : i \in 1..Len(DateStrs)}
TimeVals   == {NullS, "", BadFormat} \cup {TimeStrs[i] : i \in 1..Len(TimeStrs)}
StatusVals == {NullS, "", "scheduled", "final", "postponed"}
Vals(k) == CASE k \in {"home_score", "away_score"} -> ScoreVals
             [] k \in IntKeys -> IdVals
             [] k = "date" -> DateVals
             [] k = "time" -> TimeVals
             [] OTHER -> StatusVals

\* The JSON bodies the model sends: a body plus or minus one key.
OneKey(body) ==
  {body} \cup {[body EXCEPT ![k] = EmptyBody[k]] : k \in Keys}
         \cup UNION {{[body EXCEPT ![k] = v] : v \in Vals(k)} : k \in Keys}
CreateBodies == OneKey(BaseBody)
Patches      == OneKey(EmptyBody)
Versions     == {Absent, Null} \cup (0..MaxVersion)

\* The smaller choice of bodies for requests that race each other: a valid
\* and a same-team create; a patch for each key, the two team patches valid
\* one by one and invalid together, and a valid and an invalid status.
RaceBodies  == {BaseBody, [BaseBody EXCEPT !.away_team_id = 1]}
RacePatches == {EmptyBody}
  \cup {[EmptyBody EXCEPT ![k] = 0] :
          k \in {"home_team_id", "away_team_id", "home_score", "away_score"}}
  \cup {[EmptyBody EXCEPT ![k] = 2] : k \in {"sport_id", "venue_id"}}
  \cup {[EmptyBody EXCEPT !.date = DateStrs[2]], [EmptyBody EXCEPT !.time = TimeStrs[1]]}
  \cup {[EmptyBody EXCEPT !.status = s] : s \in {"final", "postponed"}}

NoResult == [code |-> "None", ver |-> Null]
Result(c, v) == [code |-> c, ver |-> v]
Idle == [op |-> "idle", pc |-> "idle", gid |-> 0, ver |-> Absent,
         data |-> EmptyBody, g |-> NoRow, gnew |-> NoRow, result |-> NoResult]

\* A query's criteria (request.args) and its response.
NoCrit == [sport_id |-> Null, team_id |-> Null, from |-> NullS, to |-> NullS]
\* A quotient num / den of the report, and None (no quotient).
NoneQ == [num |-> 0, den |-> 0]
NoStats == [total_games |-> 0, finals_count |-> 0,
            avg_points_per_final |-> NoneQ, win_rate_for_team |-> NoneQ]
NoFind == [op |-> "none", crit |-> NoCrit, code |-> "None", rows |-> <<>>,
           stats |-> NoStats]

\* games: the game table.  req: each request's handler, its position and
\* its local variables.  succ: for each id, the updates committed since the
\* row was inserted.  now: the clock behind created_at.  found: the last
\* query's response; prev: the response before it, when it answered the
\* same query.
VARIABLES games, req, succ, now, found, prev
vars == <<games, req, succ, now, found, prev>>
query == <<found, prev>>

Return(w, r) == [req EXCEPT ![w] = [@ EXCEPT !.pc = "done", !.result = r]]
CanStart(w) == req[w].pc = "idle"

\* seed.py, the first two rows of gdata: Boiler Ball A (team 1) against
\* Boiler Ball B (2), scheduled, and Riveters (3) against Boiler Ball A, final.
SeedGames ==
  (1 :> Row(1, 1, 2, 1, 1, 1, Null, Null, "scheduled", 0, 0)) @@
  (2 :> Row(1, 3, 1, 2, 1, 2, 64, 58, "final", 0, 0))

\* The database after db.create_all(), before or after seed.py has run.
Init ==
  /\ games \in {<<>>, SeedGames}
  /\ req = [w \in Requests |-> Idle]
  /\ succ = [i \in GameIds |-> 0]
  /\ now = 0
  /\ found = NoFind /\ prev = NoFind

\* ------------------------------------------------------------------ create
create_invalid(data) ==
  \/ Falsy(Get(data, "sport_id")) \/ Falsy(Get(data, "home_team_id"))
  \/ Falsy(Get(data, "away_team_id"))
  \/ parse_date(data.date) = Null \/ parse_time(data.time) = Null

NewGame(data, created) ==
  Row(Get(data, "sport_id"), Get(data, "home_team_id"), Get(data, "away_team_id"),
      Get(data, "venue_id"), parse_date(data.date), parse_time(data.time),
      Get(data, "home_score"), Get(data, "away_score"),
      IF FalsyS(data.status) THEN "scheduled" ELSE data.status, created, 0)

\* create_game up to the end of its transaction: parse, validate, INSERT.
CreateGame(w, data) ==
  /\ UNCHANGED query
  /\ CanStart(w)
  /\ LET r == [Idle EXCEPT !.op = "create", !.data = data]
         id == NewId(games)
         g == NewGame(data, now + 1)
     IN IF parse_raises(DateStrs, data.date) \/ parse_raises(TimeStrs, data.time)
        THEN /\ req' = [req EXCEPT ![w] = [r EXCEPT !.pc = "done",
                                              !.result = Result("Error", Null)]]
             /\ UNCHANGED <<games, succ, now>>
        ELSE IF create_invalid(data)
        THEN /\ req' = [req EXCEPT ![w] = [r EXCEPT !.pc = "done",
                                   !.result = Result("ValidationError", Null)]]
             /\ UNCHANGED <<games, succ, now>>
        ELSE IF ~RowOk(g)
        THEN /\ req' = [req EXCEPT ![w] = [r EXCEPT !.pc = "done",
                                              !.result = Result("Error", Null)]]
             /\ UNCHANGED <<games, succ, now>>
        ELSE /\ id <= MaxGames
             /\ games' = (id :> g) @@ games
             /\ succ' = [succ EXCEPT ![id] = 0]
             /\ now' = now + 1
             /\ req' = [req EXCEPT ![w] = [r EXCEPT !.pc = "committed", !.gid = id,
                                                      !.gnew = g]]

\* game_to_dict(g) after the commit expired g: the row is read again.
Respond(w) ==
  /\ UNCHANGED query
  /\ req[w].pc = "committed"
  /\ req' = IF req[w].gid \in DOMAIN games
            THEN Return(w, Result("Ok", games[req[w].gid].row_version))
            ELSE Return(w, Result("Error", Null))
  /\ UNCHANGED <<games, succ, now>>

\* ------------------------------------------------------------------ update
\* update_game without its "if not g: abort(404)".
UpdateBegin_NoLookup(w, gid, ver, data) ==
  /\ UNCHANGED query
  /\ CanStart(w)
  /\ LET r == [Idle EXCEPT !.op = "update", !.gid = gid, !.ver = ver, !.data = data]
     IN req' = [req EXCEPT ![w] =
          IF ver = Absent
          THEN [r EXCEPT !.pc = "done", !.result = Result("ValidationError", Null)]
          ELSE [r EXCEPT !.pc = "loaded",
                         !.g = IF gid \in DOMAIN games THEN games[gid] ELSE NoRow]]
  /\ UNCHANGED <<games, succ, now>>

\* update_game, lines 152-161: the row_version key is required, then the
\* row is loaded (SELECT) into the worker's session.
UpdateBegin(w, gid, ver, data) ==
  /\ UNCHANGED query
  /\ CanStart(w)
  /\ LET r == [Idle EXCEPT !.op = "update", !.gid = gid, !.ver = ver, !.data = data]
     IN req' = [req EXCEPT ![w] =
          IF ver = Absent
          THEN [r EXCEPT !.pc = "done", !.result = Result("ValidationError", Null)]
          ELSE IF gid \notin DOMAIN games
          THEN [r EXCEPT !.pc = "done", !.result = Result("NotFound", Null)]
          ELSE [r EXCEPT !.pc = "loaded", !.g = games[gid]]]
  /\ UNCHANGED <<games, succ, now>>

\* update_game if it took created_at from the patch as it takes the other keys.
ApplyPatch_AnyKey(g, data, current) ==
  [c \in Columns |->
     CASE c = "row_version" -> current + 1
       [] c = "created_at" -> IF data[c] # Absent THEN data[c] ELSE g[c]
       [] c = "date" -> IF ~FalsyS(data[c]) THEN parse_date(data[c]) ELSE g[c]
       [] c = "time" -> IF ~FalsyS(data[c]) THEN parse_time(data[c]) ELSE g[c]
       [] c = "status" -> IF ~FalsyS(data[c]) THEN data[c] ELSE g[c]
       [] OTHER -> IF data[c] # Absent THEN data[c] ELSE g[c]]

\* update_game if it tested "key in data" only, for every key.
Provided_Present(data, k) == data[k] # EmptyBody[k]
\* "if key in data" and, for date, time and status, "and data[key]".
Provided(data, k) == IF k \in IntKeys THEN data[k] # Absent ELSE ~FalsyS(data[k])

\* Lines 173-184 on the loaded object: the assignments and the version bump.
ApplyPatch(g, data, current) ==
  [c \in Columns |->
     CASE c = "row_version" -> current + 1
       [] c = "created_at" -> g[c]
       [] c = "date" -> IF Provided(data, c) THEN parse_date(data[c]) ELSE g[c]
       [] c = "time" -> IF Provided(data, c) THEN parse_time(data[c]) ELSE g[c]
       [] OTHER -> IF Provided(data, c) THEN data[c] ELSE g[c]]

patch_raises(data) ==
  \/ Provided(data, "date") /\ parse_raises(DateStrs, data.date)
  \/ Provided(data, "time") /\ parse_raises(TimeStrs, data.time)

\* update_game without its comparison of versions.
UpdateCheck_Unchecked(w) ==
  /\ UNCHANGED query
  /\ req[w].op = "update" /\ req[w].pc = "loaded"
  /\ LET r == req[w]
         current == r.g.row_version
     IN req' = IF patch_raises(r.data)
               THEN Return(w, Result("Error", Null))
               ELSE [req EXCEPT ![w] = [r EXCEPT !.pc = "dirty",
                                 !.gnew = ApplyPatch(r.g, r.data, current)]]
  /\ UNCHANGED <<games, succ, now>>

\* Lines 163-184: the comparison with the loaded row_version, then the patch.
UpdateCheck(w) ==
  /\ UNCHANGED query
  /\ req[w].op = "update" /\ req[w].pc = "loaded"
  /\ LET r == req[w]
         current == r.g.row_version
     IN req' = IF r.ver # current
               THEN Return(w, Result("Conflict", current))
               ELSE IF patch_raises(r.data)
               THEN Return(w, Result("Error", Null))
               ELSE [req EXCEPT ![w] = [r EXCEPT !.pc = "dirty",
                                 !.gnew = ApplyPatch(r.g, r.data, current)]]
  /\ UNCHANGED <<games, succ, now>>

\* A flush that writes every column of the session's object.
Flush_AllColumns(stored, loaded, modified) == modified

\* The flush: UPDATE game SET <the columns whose value differs from the loaded
\* one> WHERE id = gid.
Flush(stored, loaded, modified) ==
  [c \in Columns |-> IF modified[c] # loaded[c] THEN modified[c] ELSE stored[c]]

\* End of the "with" block of update_game: flush and COMMIT.  No row matched
\* raises StaleDataError, a broken constraint IntegrityError.
UpdateCommit(w) ==
  /\ UNCHANGED query
  /\ req[w].op = "update" /\ req[w].pc = "dirty"
  /\ LET r == req[w] IN
     IF r.gid \notin DOMAIN games
     THEN /\ req' = Return(w, Result("Error", Null))
          /\ UNCHANGED <<games, succ>>
     ELSE LET new == Flush(games[r.gid], r.g, r.gnew) IN
          IF ~RowOk(new)
          THEN /\ req' = Return(w, Result("Error", Null))
               /\ UNCHANGED <<games, succ>>
          ELSE /\ games' = [games EXCEPT ![r.gid] = new]
               /\ succ' = [succ EXCEPT ![r.gid] = @ + 1]
               /\ req' = [req EXCEPT ![w] = [r EXCEPT !.pc = "committed"]]
  /\ UNCHANGED now

\* ------------------------------------------------------------------ delete
\* delete_game, lines 190-196.
DeleteBegin(w, gid, ver) ==
  /\ UNCHANGED query
  /\ CanStart(w)
  /\ LET r == [Idle EXCEPT !.op = "delete", !.gid = gid,
                           !.ver = IF ver = Absent THEN Null ELSE ver]
     IN req' = [req EXCEPT ![w] =
          IF gid \notin DOMAIN games
          THEN [r EXCEPT !.pc = "done", !.result = Result("NotFound", Null)]
          ELSE [r EXCEPT !.pc = "loaded", !.g = games[gid]]]
  /\ UNCHANGED <<games, succ, now>>

\* delete_game without its comparison of versions.
DeleteCheck_Unchecked(w) ==
  /\ UNCHANGED query
  /\ req[w].op = "delete" /\ req[w].pc = "loaded"
  /\ req' = [req EXCEPT ![w] = [@ EXCEPT !.pc = "dirty"]]
  /\ UNCHANGED <<games, succ, now>>

\* Lines 198-207.
DeleteCheck(w) ==
  /\ UNCHANGED query
  /\ req[w].op = "delete" /\ req[w].pc = "loaded"
  /\ LET r == req[w]
         current == r.g.row_version
     IN req' = IF r.ver # Null /\ r.ver # current
               THEN Return(w, Result("Conflict", current))
               ELSE [req EXCEPT ![w] = [r EXCEPT !.pc = "dirty"]]
  /\ UNCHANGED <<games, succ, now>>

\* delete_game if its DELETE had no WHERE clause.
DeleteCommit_Every(w) ==
  /\ UNCHANGED query
  /\ req[w].op = "delete" /\ req[w].pc = "dirty"
  /\ games' = <<>>
  /\ req' = Return(w, Result("Ok", Null))
  /\ UNCHANGED <<succ, now>>

\* End of the "with" block of delete_game: DELETE FROM game WHERE id = gid
\* (no row matched is a warning only), COMMIT, and the {"ok": true} response.
DeleteCommit(w) ==
  /\ UNCHANGED query
  /\ req[w].op = "delete" /\ req[w].pc = "dirty"
  /\ games' = Remove(games, req[w].gid)
  /\ req' = Return(w, Result("Ok", Null))
  /\ UNCHANGED <<succ, now>>

\* A request arrives, with its id, version and body.
PostGame(w, bodies) ==
  CanStart(w) /\ \E data \in bodies : CreateGame(w, data)
PutGame(w, patches) ==
  CanStart(w) /\ \E gid \in GameIds, ver \in Versions, data \in patches :
                   UpdateBegin(w, gid, ver, data)
DeleteGame(w) ==
  CanStart(w) /\ \E gid \in GameIds, ver \in Versions : DeleteBegin(w, gid, ver)

Next == \E w \in Requests :
          \/ PostGame(w, RaceBodies)
          \/ PutGame(w, RacePatches)
          \/ DeleteGame(w)
          \/ UpdateCheck(w)
          \/ UpdateCommit(w)
          \/ DeleteCheck(w)
          \/ DeleteCommit(w)
          \/ Respond(w)

Spec == Init /\ [][Next]_vars

\* ------------------------------------------------------------------ inputs
\* One request with any body that differs from the base body in at most two
\* keys, against the empty or the seeded table.
TwoKeys(body) == UNION {OneKey(b) : b \in OneKey(body)}
AllBodies  == TwoKeys(BaseBody)
\* Patches of at most one key that also name id, created_at or both.
ExtraPatches ==
  {[b EXCEPT !.id = i, !.created_at = c] :
     b \in OneKey(EmptyBody), i \in {Absent, 2}, c \in {Absent, Null, 1}}
AllPatches == TwoKeys(EmptyBody) \cup ExtraPatches

NextInputs ==
  \/ PostGame(1, AllBodies)
  \/ PutGame(1, AllPatches)
  \/ DeleteGame(1)
  \/ UpdateCheck(1)
  \/ UpdateCommit(1)
  \/ DeleteCheck(1)
  \/ DeleteCommit(1)
  \/ Respond(1)

SpecInputs == Init /\ [][NextInputs]_vars

\* ------------------------------------------------------------------ queries
\* list_games, lines 105-113: a criterion narrows the query when it is truthy.
Matches(tbl, crit) ==
  {id \in DOMAIN tbl :
     /\ Falsy(crit.sport_id) \/ tbl[id].sport_id = crit.sport_id
     /\ Falsy(crit.team_id) \/ tbl[id].home_team_id = crit.team_id
                            \/ tbl[id].away_team_id = crit.team_id
     /\ parse_date(crit.from) = Null \/ tbl[id].date >= parse_date(crit.from)
     /\ parse_date(crit.to) = Null \/ tbl[id].date <= parse_date(crit.to)}

\* ORDER BY date DESC, time DESC: rows equal in both come in any order.
Before(a, b) == a.date > b.date \/ (a.date = b.date /\ a.time > b.time)
Orderings(tbl, S) ==
  {seq \in [1..Cardinality(S) -> S] :
     /\ \A i, j \in 1..Cardinality(S) : i # j => seq[i] # seq[j]
     /\ \A i, j \in 1..Cardinality(S) : i < j => ~Before(tbl[seq[j]], tbl[seq[i]])}

Answer(op, crit, code, rows) ==
  /\ found' = [op |-> op, crit |-> crit, code |-> code, rows |-> rows,
               stats |-> NoStats]
  /\ prev' = IF found.op = op /\ found.crit = crit THEN found ELSE NoFind

\* list_games: GET /api/games.  A behaviour follows one query and its
\* repetitions.
ListGames(crit) ==
  /\ found = NoFind \/ found.crit = crit
  /\ UNCHANGED <<games, req, succ, now>>
  /\ IF parse_raises(DateStrs, crit.from) \/ parse_raises(DateStrs, crit.to)
     THEN Answer("list", crit, "Error", <<>>)
     ELSE \E rows \in Orderings(games, Matches(games, crit)) :
            Answer("list", crit, "Ok", rows)

Crits == [sport_id : {Null, 0, 1, 2}, team_id : IdVals,
          from : DateVals \ {""}, to : DateVals \ {""}]

\* The tables queried: up to MaxRows rows, each the first seed row or that
\* row with another sport, home team, date or time.
SeedRow == SeedGames[1]
QueryRows == {SeedRow, [SeedRow EXCEPT !.sport_id = 2],
              [SeedRow EXCEPT !.home_team_id = 3],
              [SeedRow EXCEPT !.date = 2], [SeedRow EXCEPT !.time = 2]}
QueryTables == UNION {[1..n -> QueryRows] : n \in 0..MaxRows}

InitQuery ==
  /\ games \in QueryTables
  /\ req = [w \in Requests |-> Idle]
  /\ succ = [i \in GameIds |-> 0]
  /\ now = 0
  /\ found = NoFind /\ prev = NoFind

NextQuery == \E crit \in Crits : ListGames(crit)

SpecQuery == InitQuery /\ [][NextQuery]_vars

\* ------------------------------------------------------------------ report
\* Python's true division of two small integers, as the fraction in lowest
\* terms.
RECURSIVE Gcd(_, _)
Gcd(a, b) == IF b = 0 THEN a ELSE Gcd(b, a % b)
Quotient(a, b) == [num |-> a \div Gcd(a, b), den |-> b \div Gcd(a, b)]

\* report_games, line 234: finals = [r for r in data if status == "final"].
RECURSIVE finals(_, _)
finals(tbl, data) ==
  IF data = <<>> THEN <<>>
  ELSE (IF tbl[Head(data)].status = "final" THEN <<Head(data)>> ELSE <<>>)
       \o finals(tbl, Tail(data))

Scored(r) == r.home_score # Null /\ r.away_score # Null

\* Lines 237-243: the loop that adds up total_points and counted.
RECURSIVE total_points(_, _)
total_points(tbl, fin) ==
  IF fin = <<>> THEN 0
  ELSE (IF Scored(tbl[Head(fin)])
        THEN tbl[Head(fin)].home_score + tbl[Head(fin)].away_score ELSE 0)
       + total_points(tbl, Tail(fin))
RECURSIVE counted(_, _)
counted(tbl, fin) ==
  IF fin = <<>> THEN 0
  ELSE (IF Scored(tbl[Head(fin)]) THEN 1 ELSE 0) + counted(tbl, Tail(fin))

\* Line 244.
avg_points_per_final(tbl, fin) ==
  IF counted(tbl, fin) > 0
  THEN Quotient(total_points(tbl, fin), counted(tbl, fin)) ELSE NoneQ

\* Lines 248-259: the loop that counts games_for_team and wins_for_team.
Involves(r, team_id) == r.home_team_id = team_id \/ r.away_team_id = team_id
RECURSIVE games_for_team(_, _, _)
games_for_team(tbl, fin, team_id) ==
  IF fin = <<>> THEN 0
  ELSE (IF Scored(tbl[Head(fin)]) /\ Involves(tbl[Head(fin)], team_id)
        THEN 1 ELSE 0) + games_for_team(tbl, Tail(fin), team_id)

\* The wins one row adds: lines 256-259 count a win at home and a win away.
wins_of(r, team_id) ==
  (IF r.home_team_id = team_id /\ r.home_score > r.away_score THEN 1 ELSE 0)
  + (IF r.away_team_id = team_id /\ r.away_score > r.home_score THEN 1 ELSE 0)
RECURSIVE wins_for_team(_, _, _)
wins_for_team(tbl, fin, team_id) ==
  IF fin = <<>> THEN 0
  ELSE (IF Scored(tbl[Head(fin)]) /\ Involves(tbl[Head(fin)], team_id)
        THEN wins_of(tbl[Head(fin)], team_id) ELSE 0)
       + wins_for_team(tbl, Tail(fin), team_id)

\* A report whose win rate is 0, not None, when no final counts for the team.
win_rate_Zero(tbl, fin, team_id) ==
  IF Falsy(team_id) THEN NoneQ
  ELSE IF games_for_team(tbl, fin, team_id) = 0 THEN [num |-> 0, den |-> 1]
  ELSE Quotient(wins_for_team(tbl, fin, team_id),
                games_for_team(tbl, fin, team_id))
\* Lines 246-261: None unless team_id is truthy and games_for_team > 0.
win_rate(tbl, fin, team_id) ==
  IF Falsy(team_id) \/ games_for_team(tbl, fin, team_id) = 0 THEN NoneQ
  ELSE Quotient(wins_for_team(tbl, fin, team_id),
                games_for_team(tbl, fin, team_id))

\* A report whose finals_count counts the finals that have both scores only.
finals_count_Scored(tbl, fin) == counted(tbl, fin)
\* Line 235.
finals_count(tbl, fin) == Len(fin)

\* Lines 233-272: the "stats" object of the response.
Stats(tbl, data, team_id) ==
  LET fin == finals(tbl, data)
  IN [total_games |-> Len(data),
      finals_count |-> finals_count(tbl, fin),
      avg_points_per_final |-> avg_points_per_final(tbl, fin),
      win_rate_for_team |-> win_rate(tbl, fin, team_id)]

\* report_games: GET /api/report/games.  The query is that of list_games.
ReportGames(crit) ==
  /\ found = NoFind \/ found.crit = crit
  /\ UNCHANGED <<games, req, succ, now>>
  /\ prev' = NoFind
  /\ IF parse_raises(DateStrs, crit.from) \/ parse_raises(DateStrs, crit.to)
     THEN found' = [op |-> "report", crit |-> crit, code |-> "Error",
                    rows |-> <<>>, stats |-> NoStats]
     ELSE \E rows \in Orderings(games, Matches(games, crit)) :
            found' = [op |-> "report", crit |-> crit, code |-> "Ok",
                      rows |-> rows, stats |-> Stats(games, rows, crit.team_id)]

\* The criteria of the reports: any team, no sport or a sport without Games,
\* no date or a malformed one.
ReportCrits == [sport_id : {Null, 2}, team_id : IdVals,
                from : {NullS, BadFormat}, to : {NullS}]

\* The tables reported on: up to MaxRows rows, each the first seed row with
\* team 1 or team 0 at home, scheduled with no or both scores, or final with
\* any scores.
ReportScores == {Null, 0, 1}
ReportRows ==
  {[SeedRow EXCEPT !.home_team_id = h, !.status = "final",
                   !.home_score = hs, !.away_score = as] :
     h \in {0, 1}, hs \in ReportScores, as \in ReportScores}
  \cup {[SeedRow EXCEPT !.home_team_id = h] : h \in {0, 1}}
  \cup {[SeedRow EXCEPT !.home_team_id = h, !.home_score = 1, !.away_score = 0] :
          h \in {0, 1}}
ReportTables == UNION {[1..n -> ReportRows] : n \in 0..MaxRows}

InitReport ==
  /\ games \in ReportTables
  /\ req = [w \in Requests |-> Idle]
  /\ succ = [i \in GameIds |-> 0]
  /\ now = 0
  /\ found = NoFind /\ prev = NoFind

NextReport == \E crit \in ReportCrits : ReportGames(crit)

SpecReport == InitReport /\ [][NextReport]_vars

\* ------------------------------------------------------------------ claims
Finished(w) == req[w].pc = "done"
Code(w) == req[w].result.code
\* The step of request w that this transition is, if it is one of w's.
Steps(w) == req'[w] # req[w]
KeyAbsent(data, k) == data[k] = EmptyBody[k]
SetKeys(data) == {k \in Keys : ~KeyAbsent(data, k)}

\* p and q are updates of the same Game (the same row, created once) that
\* carry the same expected_version, and each found that version stored.
SameVersionUpdates(p, q) ==
  /\ p # q
  /\ req[p].op = "update" /\ req[q].op = "update"
  /\ req[p].gid = req[q].gid
  /\ req[p].g.created_at = req[q].g.created_at
  /\ req[p].ver = req[q].ver
  /\ req[p].g.row_version = req[p].ver /\ req[q].g.row_version = req[q].ver

\* C1: of the update requests for one Game that run concurrently with the
\* same expected_version, the version stored when they started, exactly one
\* succeeds and the others return Conflict: no two of them both succeed.
C1_OneUpdateWins ==
  \A p, q \in Requests :
    (SameVersionUpdates(p, q) /\ Finished(p) /\ Finished(q))
      => ~(Code(p) = "Ok" /\ Code(q) = "Ok")

\* C2: the row_version of every stored Game is the number of updates of it
\* that succeeded since it was created.
C2_VersionCountsUpdates ==
  \A id \in DOMAIN games : games[id].row_version = succ[id]

\* C3: an update of an existing Game whose expected_version differs from the
\* row_version it finds stored returns Conflict with that row_version, and
\* the rejected update changes no Game.
C3_StaleUpdateRejected ==
  [][\A w \in Requests :
       /\ (req[w].pc = "idle" /\ req'[w].op = "update" /\ req'[w].pc = "loaded")
            => req'[w].g = games[req'[w].gid]
       /\ (req[w].op = "update" /\ req[w].pc = "loaded" /\ Steps(w)
             /\ req[w].ver # req[w].g.row_version)
            => /\ req'[w].pc = "done"
               /\ req'[w].result = Result("Conflict", req[w].g.row_version)
               /\ games' = games]_vars

C3_Witness ==
  \E w \in Requests :
    /\ req[w].op = "update" /\ Finished(w) /\ Code(w) = "Conflict"
    /\ req[w].gid \in DOMAIN games
    /\ req[w].result.ver = games[req[w].gid].row_version
    /\ SetKeys(req[w].data) # {}

\* C4: the commit of an accepted update leaves every patchable column whose
\* key is absent from the patch as it is stored, and a patch of one key
\* changes no column but that one and row_version; no other Game changes.
C4_PatchFrame ==
  [][\A w \in Requests :
       (req[w].op = "update" /\ req[w].pc = "dirty" /\ req'[w].pc = "committed")
         => LET gid == req[w].gid
                data == req[w].data
            IN /\ DOMAIN games' = DOMAIN games
               /\ \A i \in DOMAIN games \ {gid} : games'[i] = games[i]
               /\ \A k \in Keys :
                    KeyAbsent(data, k) => games'[gid][k] = games[gid][k]
               /\ \A k \in Keys :
                    SetKeys(data) = {k} =>
                      \A c \in Columns \ {k, "row_version"} :
                        games'[gid][c] = games[gid][c]]_vars

\* An update of one key committed after another request changed another column
\* of the same Game, and both changes are stored.
C4_Witness ==
  \E w \in Requests :
    /\ req[w].op = "update" /\ req[w].pc = "committed"
    /\ req[w].gid \in DOMAIN games
    /\ SetKeys(req[w].data) = {"away_score"}
    /\ games[req[w].gid].away_score = 0
    /\ req[w].g.home_score = Null
    /\ games[req[w].gid].home_score = 0

\* C5: a delete whose supplied version differs from the row_version it finds
\* stored returns Conflict with that row_version and changes no Game; a
\* delete with no version, or with the version it finds stored, succeeds
\* and the Game is removed.
C5_DeleteVersionCheck ==
  [][\A w \in Requests :
       /\ (req[w].pc = "idle" /\ req'[w].op = "delete" /\ req'[w].pc = "loaded")
            => req'[w].g = games[req'[w].gid]
       /\ (req[w].op = "delete" /\ req[w].pc = "loaded" /\ Steps(w))
            => IF req[w].ver # Null /\ req[w].ver # req[w].g.row_version
               THEN /\ req'[w].pc = "done"
                    /\ req'[w].result = Result("Conflict", req[w].g.row_version)
                    /\ games' = games
               ELSE req'[w].pc = "dirty"
       /\ (req[w].op = "delete" /\ req[w].pc = "dirty" /\ Steps(w))
            => /\ req'[w].pc = "done" /\ req'[w].result.code = "Ok"
               /\ req[w].gid \notin DOMAIN games'
               /\ \A i \in DOMAIN games \ {req[w].gid} :
                    i \in DOMAIN games' /\ games'[i] = games[i]]_vars

\* One delete was refused for its version and the Game stayed; another, with
\* no version, removed a Game.
C5_Witness ==
  \E p, q \in Requests :
    /\ req[p].op = "delete" /\ Finished(p) /\ Code(p) = "Conflict"
    /\ req[p].gid \in DOMAIN games
    /\ req[q].op = "delete" /\ Finished(q) /\ Code(q) = "Ok"
    /\ req[q].ver = Null /\ req[q].gid \notin DOMAIN games

\* C6: every stored Game has two different teams and a status that is
\* scheduled or final.
C6_StoredGamesValid ==
  \A id \in DOMAIN games :
    /\ games[id].home_team_id # games[id].away_team_id
    /\ games[id].status \in {"scheduled", "final"}

\* An update that would have made the two teams equal ended in an error and
\* the Game is stored with the teams it had.
C6_Witness ==
  \E w \in Requests :
    /\ req[w].op = "update" /\ Finished(w) /\ Code(w) = "Error"
    /\ req[w].gid \in DOMAIN games
    /\ req[w].data.away_team_id = games[req[w].gid].home_team_id
    /\ games[req[w].gid].away_team_id # games[req[w].gid].home_team_id

\* C7: a create with home_team_id equal to away_team_id stores no Game and
\* returns a validation error.
C7_SameTeamsValidationError ==
  \A w \in Requests :
    (/\ req[w].op = "create" /\ Finished(w)
     /\ ~Falsy(req[w].data.home_team_id)
     /\ req[w].data.home_team_id = req[w].data.away_team_id)
      => Code(w) = "ValidationError" /\ req[w].gid = 0

\* A required key of create_game that is missing or empty in the body.
MissingRequired(data) ==
  \/ \E k \in {"sport_id", "home_team_id", "away_team_id"} :
       data[k] \in {Absent, Null}
  \/ \E k \in {"date", "time"} : data[k] \in {AbsentS, NullS, ""}

\* C8: a create with a required key missing or empty returns a validation
\* error and stores no Game; a Game that a create stores has row_version 0,
\* and status scheduled when the body has no status or an empty one.
C8_CreateValidation ==
  \A w \in Requests :
    (req[w].op = "create" /\ req[w].pc \in {"committed", "done"})
      => IF MissingRequired(req[w].data)
         THEN Code(w) = "ValidationError" /\ req[w].gid = 0
         ELSE req[w].gid # 0 =>
                /\ req[w].gnew.row_version = 0
                /\ FalsyS(req[w].data.status) => req[w].gnew.status = "scheduled"

Range(seq) == {seq[i] : i \in 1..Len(seq)}

\* C9: find(team_id = T) returns exactly the stored Games whose home or away
\* team is T.
C9_TeamFilterExact ==
  (/\ found.op = "list" /\ found.code = "Ok"
   /\ found.crit.team_id # Null
   /\ found.crit = [NoCrit EXCEPT !.team_id = found.crit.team_id])
    => Range(found.rows) =
         {id \in DOMAIN games : \/ games[id].home_team_id = found.crit.team_id
                                \/ games[id].away_team_id = found.crit.team_id}

\* C10: find with no criteria returns every stored Game once, latest date and
\* time first, and a second run over the same Games returns the same sequence.
C10_OrderDeterministic ==
  (found.op = "list" /\ found.crit = NoCrit)
    => /\ Range(found.rows) = DOMAIN games
       /\ Len(found.rows) = Cardinality(DOMAIN games)
       /\ \A i, j \in 1..Len(found.rows) :
            i < j => ~Before(games[found.rows[j]], games[found.rows[i]])
       /\ prev # NoFind => prev.rows = found.rows

\* The Games of the table that satisfy every criterion that is present.
Satisfying(crit) ==
  {id \in DOMAIN games :
     /\ crit.sport_id # Null => games[id].sport_id = crit.sport_id
     /\ crit.team_id # Null => \/ games[id].home_team_id = crit.team_id
                               \/ games[id].away_team_id = crit.team_id
     /\ crit.from # NullS => games[id].date >= Index(DateStrs, crit.from)
     /\ crit.to # NullS => games[id].date <= Index(DateStrs, crit.to)}

\* C11: for every combination of present and absent criteria, find returns
\* exactly the Games that satisfy all the present criteria, the two date
\* bounds inclusive.
C11_CriteriaConjoined ==
  (found.op = "list" /\ found.code = "Ok")
    => Range(found.rows) = Satisfying(found.crit)

WellFormed(crit) ==
  /\ crit.from = NullS \/ InSeq(DateStrs, crit.from)
  /\ crit.to = NullS \/ InSeq(DateStrs, crit.to)

\* C12: a report over an empty filtered set does not fail and has
\* total_games 0, finals_count 0 and neither an average nor a win rate,
\* with or without team_id.
C12_EmptyReport ==
  found.op = "report"
    => /\ WellFormed(found.crit) => found.code = "Ok"
       /\ (found.code = "Ok" /\ found.rows = <<>>)
            => found.stats = [total_games |-> 0, finals_count |-> 0,
                              avg_points_per_final |-> NoneQ,
                              win_rate_for_team |-> NoneQ]

\* A report for a team over a table with Games, none of which passes the
\* filter.
C12_Witness ==
  /\ found.op = "report" /\ found.code = "Ok" /\ found.rows = <<>>
  /\ found.crit.team_id = 1 /\ games # <<>>
  /\ found.stats.win_rate_for_team = NoneQ

\* The reported Games that are final, and those of them with both scores.
ReportedFinals == {id \in Range(found.rows) : games[id].status = "final"}
ScoredFinals ==
  {id \in ReportedFinals :
     games[id].home_score # Null /\ games[id].away_score # Null}
RECURSIVE Points(_)
Points(S) ==
  IF S = {} THEN 0
  ELSE LET id == CHOOSE i \in S : TRUE
       IN games[id].home_score + games[id].away_score + Points(S \ {id})

\* C13: total_games counts every reported row, finals_count every final,
\* scored or not, and avg_points_per_final is the points of the finals with
\* both scores over their number, absent when there is none.
C13_ReportCounts ==
  (found.op = "report" /\ found.code = "Ok")
    => /\ found.stats.total_games = Cardinality(Range(found.rows))
       /\ found.stats.finals_count = Cardinality(ReportedFinals)
       /\ found.stats.avg_points_per_final =
            IF ScoredFinals = {} THEN NoneQ
            ELSE Quotient(Points(ScoredFinals), Cardinality(ScoredFinals))

\* A report over a scheduled Game that carries scores and a final with a
\* score missing: two games, one final, no average.
C13_Witness ==
  /\ found.op = "report" /\ found.code = "Ok" /\ Len(found.rows) = 2
  /\ \E i, j \in Range(found.rows) :
       /\ games[i].status = "scheduled" /\ games[i].home_score = 1
       /\ games[j].status = "final" /\ games[j].home_score = Null
       /\ games[j].away_score = 1
  /\ found.stats.finals_count = 1
  /\ found.stats.avg_points_per_final = NoneQ

\* The scored finals reported in which team T plays, and those T won.
PlayedBy(T) ==
  {id \in ScoredFinals : games[id].home_team_id = T \/ games[id].away_team_id = T}
WonBy(T) ==
  {id \in PlayedBy(T) :
     \/ games[id].home_team_id = T /\ games[id].home_score > games[id].away_score
     \/ games[id].away_team_id = T /\ games[id].away_score > games[id].home_score}

\* C14: with team_id T supplied, win_rate_for_team is the number of scored
\* finals T won over the number of scored finals T played, absent when T
\* played none; it is absent when no team_id was supplied.
C14_WinRate ==
  (found.op = "report" /\ found.code = "Ok")
    => found.stats.win_rate_for_team =
         IF found.crit.team_id = Null \/ PlayedBy(found.crit.team_id) = {}
         THEN NoneQ
         ELSE Quotient(Cardinality(WonBy(found.crit.team_id)),
                       Cardinality(PlayedBy(found.crit.team_id)))

\* p is an update and q a delete of the same Game (the same row, created
\* once) that carry the same expected version, the one each found stored.
SameVersionUpdateDelete(p, q) ==
  /\ req[p].op = "update" /\ req[q].op = "delete"
  /\ req[p].gid = req[q].gid
  /\ req[p].g.created_at = req[q].g.created_at
  /\ req[p].ver = req[q].ver
  /\ req[p].g.row_version = req[p].ver /\ req[q].g.row_version = req[q].ver

\* The row that delete q removed is stored.
StoredAfterDelete(q) ==
  /\ req[q].op = "delete" /\ Finished(q) /\ Code(q) = "Ok"
  /\ req[q].gid \in DOMAIN games
  /\ games[req[q].gid].created_at = req[q].g.created_at

\* C15: an update and a delete of one Game that run concurrently with the
\* same expected version, the version stored when they started, do not both
\* succeed, and the Game is not stored once the delete has returned Ok.
C15_UpdateDeleteExclusive ==
  /\ \A p, q \in Requests :
       (SameVersionUpdateDelete(p, q) /\ Finished(p) /\ Finished(q))
         => ~(Code(p) = "Ok" /\ Code(q) = "Ok")
  /\ \A q \in Requests : ~StoredAfterDelete(q)

\* C16: an update (with a row_version in its body) or a delete that targets
\* an id with no stored Game returns NotFound and changes no Game; a row
\* that appears in the table is one a create has just inserted, so that a
\* deleted record stays removed.
C16_MissingIsNotFound ==
  [][/\ \A w \in Requests :
         (/\ req[w].pc = "idle" /\ req'[w].op \in {"update", "delete"}
          /\ req'[w].gid \notin DOMAIN games
          /\ req'[w].op = "update" => req'[w].ver # Absent)
           => /\ req'[w].pc = "done"
              /\ req'[w].result = Result("NotFound", Null)
              /\ games' = games
     /\ \A id \in DOMAIN games' \ DOMAIN games :
         /\ games'[id].created_at = now + 1 /\ now' = now + 1
         /\ \E w \in Requests :
              req[w].pc = "idle" /\ req'[w].op = "create" /\ req'[w].gid = id]_vars

\* An update of Game 1 answered NotFound after a delete removed Game 1.
C16_Witness ==
  \E p, q \in Requests :
    /\ req[p].op = "update" /\ Finished(p) /\ Code(p) = "NotFound"
    /\ req[p].gid = 1 /\ req[p].ver = 0
    /\ req[q].op = "delete" /\ Finished(q) /\ Code(q) = "Ok" /\ req[q].gid = 1
    /\ 1 \notin DOMAIN games

\* C17: no step changes the created_at of a stored Game, and an update,
\* whatever its patch, leaves every Game under the id it had.
C17_IdCreatedAtImmutable ==
  [][/\ \A id \in DOMAIN games \cap DOMAIN games' :
         games'[id].created_at = games[id].created_at
     /\ \A w \in Requests :
         (req[w].op = "update" /\ Steps(w)) => DOMAIN games' = DOMAIN games]_vars

\* An accepted update of Game 1 whose patch names another id and another
\* created_at: Game 1 is stored with the created_at it had.
C17_Witness ==
  \E w \in Requests :
    /\ req[w].op = "update" /\ Finished(w) /\ Code(w) = "Ok" /\ req[w].gid = 1
    /\ req[w].data.id = 2 /\ req[w].data.created_at = 1
    /\ 1 \in DOMAIN games /\ games[1].row_version = 1
    /\ games[1].created_at = SeedGames[1].created_at

\* A patch whose keys are all empty or null: date, time and status empty or
\* null, venue_id and the scores null.
Blank(data, k) ==
  IF k \in StrKeys THEN data[k] \in {NullS, ""}
  ELSE k \in {"venue_id", "home_score", "away_score"} /\ data[k] = Null
BlankOnly(data) == \A k \in SetKeys(data) : Blank(data, k)

\* C18: an update with the stored version whose patch has only empty or null
\* keys is accepted; the commit of an update leaves date, time and status as
\* stored where the patch has them empty or null, stores null where the patch
\* has venue_id or a score null, and raises row_version by 1.
C18_EmptyKeepsNullClears ==
  [][\A w \in Requests :
       (req[w].op = "update" /\ Steps(w) /\ req[w].pc # "idle")
         => LET gid == req[w].gid
                data == req[w].data
            IN /\ (BlankOnly(data) /\ req[w].pc = "loaded"
                     /\ req[w].ver = req[w].g.row_version)
                    => req'[w].pc = "dirty"
               /\ (BlankOnly(data) /\ req[w].pc = "dirty")
                    => req'[w].pc = "committed"
               /\ (BlankOnly(data) /\ req[w].pc = "committed")
                    => req'[w].result = Result("Ok", req[w].g.row_version + 1)
               /\ req'[w].pc = "committed" =>
                    /\ games'[gid].row_version = games[gid].row_version + 1
                    /\ \A k \in StrKeys :
                         data[k] \in {NullS, ""} => games'[gid][k] = games[gid][k]
                    /\ \A k \in {"venue_id", "home_score", "away_score"} :
                         data[k] = Null => games'[gid][k] = Null]_vars

\* An accepted update of the seeded final with an empty status and a null
\* home_score: the status is kept and the score is cleared.
C18_Witness ==
  \E w \in Requests :
    /\ req[w].op = "update" /\ Finished(w) /\ Code(w) = "Ok" /\ req[w].gid = 2
    /\ req[w].data.status = "" /\ req[w].data.home_score = Null
    /\ req[w].g.home_score # Null
    /\ 2 \in DOMAIN games
    /\ games[2].status = "final" /\ games[2].home_score = Null
    /\ games[2].row_version = req[w].g.row_version + 1

\* C19: the version a Conflict reports is the row_version stored when the
\* Conflict is returned, so that the same update or delete sent again with
\* it, no mutation of the Game committed in between, finds that version
\* stored and is not answered Conflict.
C19_ConflictVersionCurrent ==
  [][\A w \in Requests :
       (/\ Steps(w) /\ req'[w].pc = "done" /\ req'[w].result.code = "Conflict"
        /\ req[w].gid \in DOMAIN games'
        /\ games'[req[w].gid].created_at = req[w].g.created_at)
         => req'[w].result.ver = games'[req[w].gid].row_version]_vars

\* C20: a step of an update or delete of Game A leaves every other Game
\* stored and as it is, row_version included, and changes nothing of the
\* other requests, which read and write their own Game only.
C20_GamesIndependent ==
  [][\A w \in Requests :
       (Steps(w) /\ req'[w].op \in {"update", "delete"})
         => /\ \A i \in DOMAIN games \ {req'[w].gid} :
                 i \in DOMAIN games' /\ games'[i] = games[i]
            /\ DOMAIN games' \subseteq DOMAIN games
            /\ \A o \in Requests \ {w} : req'[o] = req[o]]_vars

\* An update of Game 1 and a delete of Game 2 both succeeded: Game 1 has the
\* update's version and every other column as seeded, Game 2 is gone.
C20_Witness ==
  \E p, q \in Requests :
    /\ req[p].op = "update" /\ Finished(p) /\ Code(p) = "Ok" /\ req[p].gid = 1
    /\ req[q].op = "delete" /\ Finished(q) /\ Code(q) = "Ok" /\ req[q].gid = 2
    /\ DOMAIN games = {1}
    /\ games[1] = [SeedGames[1] EXCEPT !.row_version = 1, !.status = "final"]

====
